---------------------------- MODULE Spec2Model ----------------------------
(***************************************************************************)
(* A model of the scipion-chem-conplex plugin: the three-step prediction   *)
(* protocol (convertStep, predictStep, createOutputStep), the parser of    *)
(* the tab-separated results file, and the viewer's filtering and          *)
(* job-generation actions.                                                 *)
(*                                                                         *)
(* Text is modelled at the level of characters: a string is a sequence of  *)
(* one-character strings, a file is a sequence of lines, each line ending  *)
(* with its newline, so that strip() and split() are computed, not assumed.*)
(***************************************************************************)
EXTENDS Integers, Sequences, FiniteSets, TLC

VARIABLES
  inputSequences,   \* the form's inputSequences: the sequences of the input set, in set order
  inputSmallMols,   \* the form's inputSmallMols: the molecules of the input set, in set order
  modelsDir,        \* the file names found in the plugin's models directory
  modelName,        \* the form's modelName: an index into the enum's choices
  stepStatus,       \* the runner's status of each inserted step
  executions,       \* how many times the runner has started each step
  fs,               \* the files of the project: path -> file
  dirs,             \* the directories the run has created
  invocations,      \* the predictor command lines run so far
  pickles,          \* the per-sequence score files written: sequence name -> scores
  outputSequences,  \* the protocol's output 'outputSequences'
  parsed,           \* what parseInteractionsFile last returned (NotRun before)
  chooseSeq,        \* the viewer form's chooseSeq: an index into ['All'] + sequence names
  chooseMol,        \* the viewer form's chooseMol: an index into ['All'] + molecule names
  scoreThres,       \* the viewer form's scoreThres, in tenths
  viewed            \* what the viewer action last invoked did

vars == <<inputSequences, inputSmallMols, modelsDir, modelName, stepStatus, executions, fs, dirs,
          invocations, pickles, outputSequences, parsed, chooseSeq, chooseMol, scoreThres,
          viewed>>

formVars == <<inputSequences, inputSmallMols, modelsDir, modelName>>

protVars == <<formVars, stepStatus, executions, fs, dirs, invocations, pickles,
              outputSequences, parsed>>

viewerVars == <<chooseSeq, chooseMol, scoreThres, viewed>>

----------------------------------------------------------------------------
(* Bounds of the model *)

\* longest results file explored by the parser specification, in lines
MaxLines == 2
\* largest input set of sequences, and of small molecules
MaxSeqs == 2
MaxMols == 2

----------------------------------------------------------------------------
(* Characters and strings *)

TAB == "\t"
NL == "\n"
SP == " "

\* most re-executions of a step the runner makes after its first execution
MaxReruns == 1

\* the characters the model uses, in ascending code-point order
CharOrder ==
  << "\t", "\n", " ", ".", "0", "1", "2", "3", "4", "5", "8", "A", "C", "G", "K", "M", "N", "O",
     "a", "b", "c", "d", "e", "f", "h", "i", "l", "m", "n", "o", "p", "r", "s",
     "t", "u", "x" >>

Ord(c) == CHOOSE i \in DOMAIN CharOrder : CharOrder[i] = c

\* Python's str < str: lexicographic by code point, a proper prefix is smaller
RECURSIVE StrLess(_, _)
StrLess(a, b) ==
  IF b = << >> THEN FALSE
  ELSE IF a = << >> THEN TRUE
  ELSE IF Head(a) = Head(b) THEN StrLess(Tail(a), Tail(b))
  ELSE Ord(Head(a)) < Ord(Head(b))

\* list.sort() applied to the elements of a set of strings
RECURSIVE SortedList(_)
SortedList(S) ==
  IF S = {} THEN << >>
  ELSE LET m == CHOOSE x \in S : \A y \in S \ {x} : StrLess(x, y)
       IN  <<m>> \o SortedList(S \ {m})

Whitespace == {SP, TAB, NL}

\* str.strip(): drops the leading and the trailing run of whitespace
RECURSIVE LStrip(_)
LStrip(s) == IF s # << >> /\ Head(s) \in Whitespace THEN LStrip(Tail(s)) ELSE s

RECURSIVE RStrip(_)
RStrip(s) ==
  IF s # << >> /\ s[Len(s)] \in Whitespace THEN RStrip(SubSeq(s, 1, Len(s) - 1)) ELSE s

Strip(s) == RStrip(LStrip(s))

\* str.split(sep): the fields between the separators, empty fields kept
RECURSIVE SplitAcc(_, _, _)
SplitAcc(s, sep, cur) ==
  IF s = << >> THEN <<cur>>
  ELSE IF Head(s) = sep THEN <<cur>> \o SplitAcc(Tail(s), sep, << >>)
  ELSE SplitAcc(Tail(s), sep, Append(cur, Head(s)))

Split(s, sep) == SplitAcc(s, sep, << >>)

\* sep.join(fields)
RECURSIVE Join(_, _)
Join(fields, sep) ==
  IF fields = << >> THEN << >>
  ELSE IF Len(fields) = 1 THEN fields[1]
  ELSE fields[1] \o <<sep>> \o Join(Tail(fields), sep)

----------------------------------------------------------------------------
(* Dictionaries that are only looked up: functions from keys to values *)

EmptyDict == << >>

Put(d, k, v) == [x \in (DOMAIN d) \cup {k} |-> IF x = k THEN v ELSE d[x]]

----------------------------------------------------------------------------
(* ProtConPLexPrediction.parseInteractionsFile *)

\* a path with no file behind it, and a file with its lines
NoFile == [exists |-> FALSE, open |-> FALSE, lines |-> << >>]
File(lines) == [exists |-> TRUE, open |-> FALSE, lines |-> lines]

\* the call has not been made; the call raised an exception
NotRun == [status |-> "notrun"]
Raised == [status |-> "raised"]

\* the loop body if a repeated (sequence, molecule) pair kept its first score
ParseLineIntoKeepFirst(acc, line) ==
  LET fields == Split(Strip(line), TAB)
  IN  IF ~acc.ok \/ Len(fields) # 3
      THEN [acc EXCEPT !.ok = FALSE]
      ELSE LET molName == fields[1]
               seqName == fields[2]
               score == fields[3]
           IN  [ok |-> TRUE,
                molNames |-> acc.molNames \cup {molName},
                intDic |->
                  IF seqName \in DOMAIN acc.intDic
                  THEN IF molName \in DOMAIN acc.intDic[seqName]
                       THEN acc.intDic
                       ELSE [acc.intDic EXCEPT ![seqName] = Put(@, molName, score)]
                  ELSE Put(acc.intDic, seqName, Put(EmptyDict, molName, score))]

\* the loop body: one line of the file
ParseLineInto(acc, line) ==
  LET fields == Split(Strip(line), TAB)
  IN  IF ~acc.ok \/ Len(fields) # 3
      THEN [acc EXCEPT !.ok = FALSE]
      ELSE LET molName == fields[1]
               seqName == fields[2]
               score == fields[3]
           IN  [ok |-> TRUE,
                molNames |-> acc.molNames \cup {molName},
                intDic |->
                  IF seqName \in DOMAIN acc.intDic
                  THEN [acc.intDic EXCEPT ![seqName] = Put(@, molName, score)]
                  ELSE Put(acc.intDic, seqName, Put(EmptyDict, molName, score))]

RECURSIVE ParseLines(_, _)
ParseLines(acc, lines) ==
  IF lines = << >> THEN acc
  ELSE ParseLines(ParseLineInto(acc, Head(lines)), Tail(lines))

\* Raised when the file is missing or a line does not unpack into three fields
parseInteractionsFile(iFile) ==
  IF ~iFile.exists THEN Raised
  ELSE LET acc == ParseLines([ok |-> TRUE, molNames |-> {}, intDic |-> EmptyDict],
                             iFile.lines)
       IN  IF ~acc.ok THEN Raised
           ELSE [status |-> "ok",
                 intDic |-> acc.intDic,
                 seqNames |-> SortedList(DOMAIN acc.intDic),
                 molNames |-> SortedList(acc.molNames)]

----------------------------------------------------------------------------
(* The parser on its own: any bounded file, parsed once *)

m1 == <<"m", "1">>
m2 == <<"m", "2">>
s1 == <<"s", "1">>
s2 == <<"s", "2">>
lo == <<"0", ".", "2">>
mid == <<"0", ".", "5">>
hi == <<"0", ".", "8">>

Line(fields) == Join(fields, TAB) \o <<NL>>

\* lines a results file may hold: well-formed rows, rows with an empty or a
\* padded field, rows with too few or too many fields, a blank line
LineChoices ==
  { Line(<<m1, s1, hi>>), Line(<<m2, s1, lo>>), Line(<<m1, s2, mid>>),
    Line(<<m1, s1, lo>>),
    Line(<<m2, s2, << >> >>), Line(<< << >>, s1, hi>>),
    Line(<< <<SP>> \o m2, s2, hi \o <<SP>> >>), Line(<<m1 \o <<SP>>, s1, lo>>),
    Line(<<m1, s1>>), Line(<<m1, s1, hi, lo>>), <<NL>>,
    Join(<<m2, s2, mid>>, TAB) }

\* only the last line of a file can lack its newline
RECURSIVE FilesUpTo(_)
FilesUpTo(n) ==
  IF n = 0 THEN { << >> }
  ELSE LET shorter == FilesUpTo(n - 1)
       IN  shorter \cup { Append(f, l) :
                            f \in { g \in shorter : /\ Len(g) = n - 1
                                                   /\ \A i \in 1..Len(g) : g[i][Len(g[i])] = NL },
                            l \in LineChoices }


----------------------------------------------------------------------------
(* Paths: a path is a sequence of components; "/" first makes it absolute *)

\* the project directory, the working directory of the process
ProjectDir == <<"/", "project">>

abspath(p) == IF p # << >> /\ p[1] = "/" THEN p ELSE ProjectDir \o p

basename(p) == p[Len(p)]

dirname(p) == SubSeq(p, 1, Len(p) - 1)

Read(fsys, p) == IF p \in DOMAIN fsys THEN fsys[p] ELSE NoFile

Write(fsys, p, file) == [q \in (DOMAIN fsys) \cup {p} |-> IF q = p THEN file ELSE fsys[q]]

\* os.listdir(d): the names of the files directly in d
FilesIn(fsys, d) == { q \in DOMAIN fsys : dirname(q) = d }

\* the orders in which os.listdir may return the elements of S
Listings(S) ==
  { l \in [1..Cardinality(S) -> S] : \A i, j \in 1..Cardinality(S) : l[i] = l[j] => i = j }

\* the protocol's working directory, relative to the project
workingDir == <<"Runs", "000002_ProtConPLexPrediction">>

_getPath(p) == workingDir \o p

getPath(p) == _getPath(p)

_getExtraPath(p) == workingDir \o <<"extra">> \o p

_getTmpPath(p) == workingDir \o <<"tmp">> \o p

----------------------------------------------------------------------------
(* The inputs of a run *)

m3 == <<"m", "3">>
m4 == <<"m", "4">>

\* the sequences an input set is made of; two share a name
SeqChoices ==
  { [name |-> s1, seq |-> <<"M", "K">>],
    [name |-> s2, seq |-> <<"G", "A">>],
    [name |-> s1, seq |-> <<"G", "A">>] }

\* the molecules an input set is made of; m1 and m3 have the same SMILES, and
\* the file of m4 was removed after the import
MolChoices ==
  { [molName |-> m1, smi |-> <<"C", "O">>, fileName |-> <<"/", "data", "a.mol2">>],
    [molName |-> m2, smi |-> <<"C", "C">>, fileName |-> <<"/", "data", "b.mol2">>],
    [molName |-> m3, smi |-> <<"C", "O">>, fileName |-> <<"/", "data", "c.mol2">>],
    [molName |-> m4, smi |-> <<"C", "N">>, fileName |-> <<"/", "data", "d.mol2">>] }

\* the molecule files on disk before the run: a molecule file holds a
\* structure (its SMILES once converted) and a title, the molecule's name
MolFile(mol) ==
  [exists |-> TRUE, open |-> FALSE, lines |-> << >>, smi |-> mol.smi, title |-> mol.molName]

InputDisk ==
  LET present == { mol \in MolChoices : mol.molName # m4 }
  IN  [p \in { mol.fileName : mol \in present } |->
         MolFile(CHOOSE mol \in present : mol.fileName = p)]

\* the lists of length 0..n over S
RECURSIVE ListsUpTo(_, _)
ListsUpTo(S, n) ==
  IF n = 0 THEN { << >> }
  ELSE LET shorter == ListsUpTo(S, n - 1)
       IN  shorter \cup { Append(l, x) : l \in { k \in shorter : Len(k) = n - 1 }, x \in S }

\* an input set gives its items the object ids 1, 2, ... in set order
WithObjIds(l) == [i \in 1..Len(l) |-> [objId |-> i, name |-> l[i].name, seq |-> l[i].seq]]

----------------------------------------------------------------------------
(* Plugin: the models directory and the model enum *)

ModelA == <<"a", ".", "p", "t">>
ModelB == <<"b", ".", "p", "t">>
NoneFound == <<"N", "o", "n", "e", " ", "f", "o", "u", "n", "d">>

ModelsDirChoices == { {}, {ModelA}, {ModelB, ModelA} }

\* os.path.join of the models directory and a model's file name
PathJoin(dir, name) == [dir |-> dir, name |-> name]

getModelsDir == <<"/", "software", "conplex", "ConPLex", "models">>

getLocalModels(listing) ==
  LET models == { Strip(file) : file \in listing }
  IN  IF models = {} THEN << NoneFound >> ELSE SortedList(models)

\* getEnumText('modelName'): the choice at the stored index, counted from 0
getEnumTextModelName(listing, index) == getLocalModels(listing)[index + 1]

----------------------------------------------------------------------------
(* The steps and the runner *)

\* a step inserted with no prerequisites given waits for the step before it
_insertFunctionStep(steps, func) ==
  Append(steps, [func |-> func,
                 prerequisites |-> IF steps = << >> THEN {} ELSE {Len(steps)}])

\* the steps as they would be inserted with prerequisites=[]
_insertAllStepsUnordered ==
  << [func |-> "convertStep", prerequisites |-> {}],
     [func |-> "predictStep", prerequisites |-> {}],
     [func |-> "createOutputStep", prerequisites |-> {}] >>

_insertAllSteps ==
  _insertFunctionStep(
    _insertFunctionStep(
      _insertFunctionStep(<< >>, "convertStep"),
      "predictStep"),
    "createOutputStep")

StepIndex(func) == CHOOSE i \in DOMAIN _insertAllSteps : _insertAllSteps[i].func = func

Executing(i) == stepStatus[i] \in {"running", "waiting"}

Failed == \E i \in DOMAIN stepStatus : stepStatus[i] = "failed"

\* the runner starts any step whose prerequisites have finished, as long as
\* no step has failed; with the parallel mode several may run at once
StartStep ==
  /\ ~Failed
  /\ \E i \in DOMAIN _insertAllSteps :
       /\ stepStatus[i] = "new"
       /\ \A j \in _insertAllSteps[i].prerequisites : stepStatus[j] = "finished"
       /\ stepStatus' = [stepStatus EXCEPT ![i] = "running"]
       /\ executions' = [executions EXCEPT ![i] = @ + 1]
  /\ UNCHANGED <<viewerVars, formVars, fs, dirs, invocations, pickles, outputSequences, parsed>>

----------------------------------------------------------------------------
(* ProtConPLexPrediction.convertStep *)

getInputSMIDir == abspath(_getExtraPath(<<"inputSMI">>))

\* os.link for each molecule in set order; the first missing source or
\* existing destination raises and leaves the links made so far
RECURSIVE LinkMols(_, _, _)
LinkMols(fsys, oDir, mols) ==
  IF mols = << >> THEN [status |-> "ok", fs |-> fsys]
  ELSE LET src == Head(mols).fileName
           dst == oDir \o <<basename(src)>>
       IN  IF src \notin DOMAIN fsys \/ dst \in DOMAIN fsys
           THEN [status |-> "raised", fs |-> fsys]
           ELSE LinkMols(Write(fsys, dst, fsys[src]), oDir, Tail(mols))

copyInputMolsInDir(fsys, ds, mols) ==
  LET oDir == abspath(_getTmpPath(<<"inMols">>))
      linked == LinkMols(fsys, oDir, mols)
  IN  [status |-> linked.status, fs |-> linked.fs, dirs |-> ds \cup {oDir}, oDir |-> oDir]

\* the name obabel_IO.py gives the SMI file of a molecule file
SmiFileName(base) ==
  CASE base = "a.mol2" -> "a.smi"
    [] base = "b.mol2" -> "b.smi"
    [] base = "c.mol2" -> "c.smi"
    [] base = "d.mol2" -> "d.smi"

\* obabel_IO.py --multiFiles -of smi: one SMI file per file of molDir, holding
\* the line "<SMILES>\t<title>\n"
ObabelIO(fsys, molDir, outDir) ==
  LET ins == FilesIn(fsys, molDir)
      out(p) == outDir \o <<SmiFileName(basename(p))>>
      outs == { out(p) : p \in ins }
  IN  [q \in (DOMAIN fsys) \cup outs |->
         IF q \in outs
         THEN LET p == CHOOSE x \in ins : out(x) = q
              IN  File(<< fsys[p].smi \o <<TAB>> \o fsys[p].title \o <<NL>> >>)
         ELSE fsys[q]]

\* exit: the exit status of the conversion script
convertStep(fsys, ds, mols, exit) ==
  LET smiDir == getInputSMIDir
      cp == copyInputMolsInDir(fsys, ds \cup {smiDir}, mols)
  IN  IF cp.status = "raised" \/ exit # 0
      THEN [status |-> "raised", fs |-> cp.fs, dirs |-> cp.dirs]
      ELSE [status |-> "ok", fs |-> ObabelIO(cp.fs, cp.oDir, smiDir), dirs |-> cp.dirs]

----------------------------------------------------------------------------
(* ProtConPLexPrediction.predictStep *)

\* str.split(): the runs of non-whitespace characters
RECURSIVE SplitWSAcc(_, _)
SplitWSAcc(s, cur) ==
  LET done == IF cur = << >> THEN << >> ELSE <<cur>>
  IN  IF s = << >> THEN done
      ELSE IF Head(s) \in Whitespace THEN done \o SplitWSAcc(Tail(s), << >>)
      ELSE SplitWSAcc(Tail(s), Append(cur, Head(s)))

SplitWS(s) == SplitWSAcc(s, << >>)

\* a dict that is iterated: the <<key, value>> pairs in insertion order
OPut(d, k, v) ==
  IF \E i \in DOMAIN d : d[i][1] = k
  THEN [i \in DOMAIN d |-> IF d[i][1] = k THEN <<k, v>> ELSE d[i]]
  ELSE Append(d, <<k, v>>)

RECURSIVE ReadSMIs(_, _, _)
ReadSMIs(fsys, files, smisDic) ==
  IF files = << >> THEN [status |-> "ok", dic |-> smisDic]
  ELSE LET f == Read(fsys, Head(files))
           line == IF f.lines = << >> THEN << >> ELSE f.lines[1]
           tokens == SplitWS(line)
       IN  IF ~f.exists \/ Len(tokens) # 2
           THEN [status |-> "raised", dic |-> smisDic]
           ELSE ReadSMIs(fsys, Tail(files), OPut(smisDic, tokens[1], Strip(tokens[2])))

\* listing: the order in which os.listdir returns the files of the SMI directory
getInputSMIs(fsys, ds, listing) ==
  IF getInputSMIDir \notin ds
  THEN [status |-> "raised", dic |-> << >>]
  ELSE ReadSMIs(fsys, listing, << >>)

RECURSIVE getInputSeqsFrom(_, _)
getInputSeqsFrom(inSeqs, seqsDic) ==
  IF inSeqs = << >> THEN seqsDic
  ELSE getInputSeqsFrom(Tail(inSeqs), OPut(seqsDic, Head(inSeqs).name, Head(inSeqs).seq))

getInputSeqs(inSeqs) == getInputSeqsFrom(inSeqs, << >>)

\* the rows if the molecule's name were written first
DataRowsMolFirst(protSeqsDic, smisDic) ==
  LET n == Len(smisDic)
  IN  [k \in 1..(Len(protSeqsDic) * n) |->
         LET p == protSeqsDic[((k - 1) \div n) + 1]
             s == smisDic[((k - 1) % n) + 1]
         IN  Line(<<s[2], p[1], p[2], s[1]>>)]

\* the rows written by the two nested loops
DataRows(protSeqsDic, smisDic) ==
  LET n == Len(smisDic)
  IN  [k \in 1..(Len(protSeqsDic) * n) |->
         LET p == protSeqsDic[((k - 1) \div n) + 1]
             s == smisDic[((k - 1) % n) + 1]
         IN  Line(<<p[1], s[2], p[2], s[1]>>)]

DataFilePath == abspath(_getExtraPath(<<"inputConPLex.tsv">>))

\* up to the launch of the predictor: the data file is written and closed, the
\* command line is built
predictStep(fsys, ds, inSeqs, listing, models, index) ==
  LET smis == getInputSMIs(fsys, ds, listing)
      protSeqsDic == getInputSeqs(inSeqs)
      argFile == DataFilePath
  IN  IF smis.status = "raised"
      THEN [status |-> "raised", fs |-> fsys, invocation |-> << >>]
      ELSE [status |-> "ok",
            fs |-> Write(fsys, argFile, File(DataRows(protSeqsDic, smis.dic))),
            invocation |->
              [dataFile |-> argFile,
               modelPath |-> PathJoin(getModelsDir, getEnumTextModelName(models, index)),
               outfile |-> <<"results.tsv">>,
               cwd |-> _getPath(<< >>)]]

----------------------------------------------------------------------------
(* The external predictor, conplex-dti predict *)

\* the score a model file gives a (residues, SMILES) pair
ModelScore(model, seq, smi) ==
  IF model = ModelA
  THEN IF (seq = <<"M", "K">>) = (smi = <<"C", "O">>) THEN hi ELSE lo
  ELSE IF seq = <<"M", "K">> THEN (IF smi = <<"C", "O">> THEN hi ELSE mid) ELSE lo

\* what the process may do: answer every row, exit non-zero, exit zero without
\* writing, leave the last row out, or write the last row without its score
PredictorModes == {"ok", "exit", "nofile", "drop", "truncated"}

ScoreRow(model, dataLine) ==
  LET f == Split(SubSeq(dataLine, 1, Len(dataLine) - 1), TAB)
  IN  <<f[2], f[1], ModelScore(model, f[3], f[4])>>

ConplexPredict(fsys, models, inv, mode) ==
  LET data == Read(fsys, inv.dataFile)
      outPath == abspath(inv.cwd \o inv.outfile)
      n == Len(data.lines)
      rows == [k \in 1..n |-> ScoreRow(inv.modelPath.name, data.lines[k])]
      full == [k \in 1..n |-> Line(rows[k])]
      written ==
        CASE mode = "drop" -> SubSeq(full, 1, n - 1)
          [] mode = "truncated" ->
               [k \in 1..n |-> IF k = n THEN Line(<<rows[k][1], rows[k][2]>>) ELSE full[k]]
          [] OTHER -> full
  IN  IF mode = "exit" \/ ~data.exists \/ inv.modelPath.name \notin models
      THEN [exit |-> 1, fs |-> fsys]
      ELSE IF mode = "nofile" THEN [exit |-> 0, fs |-> fsys]
      ELSE [exit |-> 0, fs |-> Write(fsys, outPath, File(written))]

----------------------------------------------------------------------------
(* ProtConPLexPrediction.createOutputStep *)

\* the results file if it were looked for in the extra directory
getInteractionsFileInExtra == _getExtraPath(<<"results.tsv">>)

getInteractionsFile == getPath(<<"results.tsv">>)

NoOutput == [defined |-> FALSE, seqs |-> << >>, interactMols |-> << >>]

\* no viewer action has been invoked
NoView == [action |-> "none"]

\* the inner loop over the input molecules: seqIntDic, or a KeyError
RECURSIVE SeqScores(_, _, _, _)
SeqScores(intDic, seqName, mols, seqIntDic) ==
  IF mols = << >> THEN [status |-> "ok", dic |-> seqIntDic]
  ELSE LET molName == Head(mols).molName
       IN  IF seqName \notin DOMAIN intDic \/ molName \notin DOMAIN intDic[seqName]
           THEN [status |-> "raised", dic |-> seqIntDic]
           ELSE SeqScores(intDic, seqName, Tail(mols),
                          Put(seqIntDic, molName, intDic[seqName][molName]))

\* the outer loop if each output sequence were put in front of the others
RECURSIVE OutputLoopPrepending(_, _, _, _, _)
OutputLoopPrepending(intDic, inSeqs, inMols, outSeqs, pk) ==
  IF inSeqs = << >> THEN [status |-> "ok", seqs |-> outSeqs, pickles |-> pk]
  ELSE LET seq == Head(inSeqs)
           sc == SeqScores(intDic, seq.name, inMols, EmptyDict)
       IN  IF sc.status = "raised"
           THEN [status |-> "raised", seqs |-> outSeqs, pickles |-> pk]
           ELSE OutputLoopPrepending(intDic, Tail(inSeqs), inMols,
                                     << [objId |-> seq.objId, name |-> seq.name,
                                         seq |-> seq.seq, scores |-> sc.dic] >> \o outSeqs,
                                     Put(pk, seq.name, sc.dic))

\* the outer loop over the input sequences: an output sequence and a score
\* file for each, until one raises
RECURSIVE OutputLoop(_, _, _, _, _)
OutputLoop(intDic, inSeqs, inMols, outSeqs, pk) ==
  IF inSeqs = << >> THEN [status |-> "ok", seqs |-> outSeqs, pickles |-> pk]
  ELSE LET seq == Head(inSeqs)
           sc == SeqScores(intDic, seq.name, inMols, EmptyDict)
       IN  IF sc.status = "raised"
           THEN [status |-> "raised", seqs |-> outSeqs, pickles |-> pk]
           ELSE OutputLoop(intDic, Tail(inSeqs), inMols,
                           Append(outSeqs, [objId |-> seq.objId, name |-> seq.name,
                                            seq |-> seq.seq, scores |-> sc.dic]),
                           Put(pk, seq.name, sc.dic))

\* the step if the output were defined with the sequences built before a KeyError
createOutputStepPartial(inSeqs, inMols, fsys, pk) ==
  LET p == parseInteractionsFile(Read(fsys, abspath(getInteractionsFile)))
      loop == OutputLoop(p.intDic, inSeqs, inMols, << >>, pk)
  IN  IF p.status = "raised"
      THEN [status |-> "raised", parsed |-> p, pickles |-> pk, output |-> NoOutput]
      ELSE [status |-> loop.status, parsed |-> p, pickles |-> loop.pickles,
            output |-> [defined |-> TRUE, seqs |-> loop.seqs, interactMols |-> inMols]]

createOutputStep(inSeqs, inMols, fsys, pk) ==
  LET p == parseInteractionsFile(Read(fsys, abspath(getInteractionsFile)))
      loop == OutputLoop(p.intDic, inSeqs, inMols, << >>, pk)
  IN  IF p.status = "raised"
      THEN [status |-> "raised", parsed |-> p, pickles |-> pk, output |-> NoOutput]
      ELSE IF loop.status = "raised"
      THEN [status |-> "raised", parsed |-> p, pickles |-> loop.pickles, output |-> NoOutput]
      ELSE [status |-> "ok", parsed |-> p, pickles |-> loop.pickles,
            output |-> [defined |-> TRUE, seqs |-> loop.seqs, interactMols |-> inMols]]

----------------------------------------------------------------------------
(* A run of the protocol *)

Init ==
  /\ inputSequences \in { WithObjIds(l) : l \in ListsUpTo(SeqChoices, MaxSeqs) }
  /\ inputSmallMols \in ListsUpTo(MolChoices, MaxMols)
  /\ modelsDir \in ModelsDirChoices
  /\ modelName \in 0..(Len(getLocalModels(modelsDir)) - 1)
  /\ stepStatus = [i \in DOMAIN _insertAllSteps |-> "new"]
  /\ executions = [i \in DOMAIN _insertAllSteps |-> 0]
  /\ fs = InputDisk
  /\ dirs = {}
  /\ invocations = << >>
  /\ pickles = EmptyDict
  /\ outputSequences = NoOutput
  /\ parsed = NotRun
  /\ chooseSeq = 0
  /\ chooseMol = 0
  /\ scoreThres = 0
  /\ viewed = NoView

Finish(func, ok) ==
  stepStatus' = [stepStatus EXCEPT ![StepIndex(func)] = IF ok THEN "finished" ELSE "failed"]

ConvertStep ==
  /\ stepStatus[StepIndex("convertStep")] = "running"
  /\ \E exit \in {0, 1} :
       LET r == convertStep(fs, dirs, inputSmallMols, exit)
       IN  /\ fs' = r.fs
           /\ dirs' = r.dirs
           /\ Finish("convertStep", r.status = "ok")
  /\ UNCHANGED <<viewerVars, formVars, executions, invocations, pickles, outputSequences, parsed>>

\* predictStep up to runJob: the predictor is launched and the step waits for it
PredictStep ==
  /\ stepStatus[StepIndex("predictStep")] = "running"
  /\ \E listing \in Listings(FilesIn(fs, getInputSMIDir)) :
       LET r == predictStep(fs, dirs, inputSequences, listing, modelsDir, modelName)
       IN  /\ fs' = r.fs
           /\ IF r.status = "ok"
              THEN /\ invocations' = Append(invocations, r.invocation)
                   /\ stepStatus' = [stepStatus EXCEPT ![StepIndex("predictStep")] = "waiting"]
              ELSE /\ invocations' = invocations
                   /\ Finish("predictStep", FALSE)
  /\ UNCHANGED <<viewerVars, formVars, executions, dirs, pickles, outputSequences, parsed>>

\* the predictor process ends and runJob returns, or raises on a non-zero exit
RunJob ==
  /\ stepStatus[StepIndex("predictStep")] = "waiting"
  /\ \E mode \in PredictorModes :
       LET r == ConplexPredict(fs, modelsDir, invocations[Len(invocations)], mode)
       IN  /\ fs' = r.fs
           /\ Finish("predictStep", r.exit = 0)
  /\ UNCHANGED <<viewerVars, formVars, executions, dirs, invocations, pickles, outputSequences, parsed>>

CreateOutputStep ==
  /\ stepStatus[StepIndex("createOutputStep")] = "running"
  /\ LET r == createOutputStep(inputSequences, inputSmallMols, fs, pickles)
     IN  /\ parsed' = r.parsed
         /\ pickles' = r.pickles
         /\ outputSequences' = r.output
         /\ Finish("createOutputStep", r.status = "ok")
  /\ UNCHANGED <<viewerVars, formVars, executions, fs, dirs, invocations>>

Next == StartStep \/ ConvertStep \/ PredictStep \/ RunJob \/ CreateOutputStep

Spec == Init /\ [][Next]_vars

\* the runner keeps running the steps it can run, and a launched process ends
FairSpec == Spec /\ WF_vars(Next)

----------------------------------------------------------------------------
(* The parser on its own: any bounded results file, parsed once *)

ParseInit ==
  /\ inputSequences = << >>
  /\ inputSmallMols = << >>
  /\ modelsDir = {}
  /\ modelName = 0
  /\ stepStatus = [i \in DOMAIN _insertAllSteps |-> "new"]
  /\ executions = [i \in DOMAIN _insertAllSteps |-> 0]
  /\ fs \in { << >> } \cup { Write(<< >>, abspath(getInteractionsFile), File(f)) :
                             f \in FilesUpTo(MaxLines) }
  /\ dirs = {}
  /\ invocations = << >>
  /\ pickles = EmptyDict
  /\ outputSequences = NoOutput
  /\ parsed = NotRun
  /\ chooseSeq = 0
  /\ chooseMol = 0
  /\ scoreThres = 0
  /\ viewed = NoView

ParseFile ==
  /\ parsed = NotRun
  /\ parsed' = parseInteractionsFile(Read(fs, abspath(getInteractionsFile)))
  /\ UNCHANGED <<viewerVars, formVars, stepStatus, executions, fs, dirs, invocations, pickles, outputSequences>>

ParseNext == ParseFile

ParseSpec == ParseInit /\ [][ParseNext]_vars

----------------------------------------------------------------------------
(* The output set as the viewer reads it *)

getSequenceNames(outSeqs) == [i \in DOMAIN outSeqs.seqs |-> outSeqs.seqs[i].name]

getInteractMolNames(outSeqs) ==
  [i \in DOMAIN outSeqs.interactMols |-> outSeqs.interactMols[i].molName]

\* {sequence name: that sequence's score dict}, built in set order
RECURSIVE ScoresDicFrom(_, _)
ScoresDicFrom(seqs, dic) ==
  IF seqs = << >> THEN dic
  ELSE ScoresDicFrom(Tail(seqs), Put(dic, Head(seqs).name, Head(seqs).scores))

getInteractScoresDic(outSeqs) == ScoresDicFrom(outSeqs.seqs, EmptyDict)

----------------------------------------------------------------------------
(* ConPLexViewer: the form and the filters *)

All == <<"A", "l", "l">>

\* the values of the score threshold tried, in tenths
ThresChoices == {0, 5}

\* the enum texts: 'All' followed by the sorted names of the results file
getEnumTextChoose(names, index) == (<<All>> \o names)[index + 1]

Digits == <<"0", "1", "2", "3", "4", "5", "6", "7", "8", "9">>

DigitOf(c) == (CHOOSE i \in DOMAIN Digits : Digits[i] = c) - 1

RECURSIVE Decimal(_, _)
Decimal(s, n) == IF s = << >> THEN n ELSE Decimal(Tail(s), 10 * n + DigitOf(Head(s)))

\* float(s) for a score written with at most one decimal, in tenths
FloatOf(s) ==
  LET parts == Split(s, ".")
  IN  10 * Decimal(parts[1], 0)
        + (IF Len(parts) > 1 /\ parts[2] # << >> THEN DigitOf(parts[2][1]) ELSE 0)

\* str(n) for a natural number
RECURSIVE StrOf(_)
StrOf(n) == IF n < 10 THEN << Digits[n + 1] >> ELSE StrOf(n \div 10) \o << Digits[(n % 10) + 1] >>

filterIds(seqNames, molNames, chooseSeqText, chooseMolText) ==
  [seqNames |-> IF chooseSeqText # All
                THEN SelectSeq(seqNames, LAMBDA seqName : seqName = chooseSeqText)
                ELSE seqNames,
   molNames |-> IF chooseMolText # All
                THEN SelectSeq(molNames, LAMBDA molName : molName = chooseMolText)
                ELSE molNames]

\* the array if every row were filled from the first sequence
formatInteractionsArrayFirstRow(intDic, seqNames, molNames) ==
  [shape |-> <<Len(seqNames), Len(molNames)>>,
   a |-> [i \in 1..Len(seqNames) |->
            [j \in 1..Len(molNames) |-> FloatOf(intDic[seqNames[1]][molNames[j]])]]]

\* a 2-D array: its shape and its rows
formatInteractionsArray(intDic, seqNames, molNames) ==
  [shape |-> <<Len(seqNames), Len(molNames)>>,
   a |-> [i \in 1..Len(seqNames) |->
            [j \in 1..Len(molNames) |-> FloatOf(intDic[seqNames[i]][molNames[j]])]]]

\* the k-th smallest element of a set of indices
NthIndex(S, k) == CHOOSE x \in S : Cardinality({ y \in S : y < x }) = k - 1

\* the selection if it took as many leading elements as there are indices
TakeLeading(l, ips) == [k \in 1..Cardinality(ips) |-> l[k]]

\* l[ips]: the elements of l at the indices ips, in ascending index order
Take(l, ips) == [k \in 1..Cardinality(ips) |-> l[NthIndex(ips, k)]]

\* the filter if a score equal to the threshold passed it
filterScoresAtLeast(intAr, seqNames, molNames, scThres) ==
  LET ips == { ip \in 1..Len(seqNames) :
                 \E j \in 1..intAr.shape[2] : intAr.a[ip][j] >= scThres }
      ims == { im \in 1..Len(molNames) :
                 \E i \in 1..intAr.shape[1] : intAr.a[i][im] >= scThres }
      intAr1 == [shape |-> <<Cardinality(ips), intAr.shape[2]>>, a |-> Take(intAr.a, ips)]
  IN  [intAr |-> [shape |-> <<Cardinality(ips), Cardinality(ims)>>,
                  a |-> [i \in 1..Cardinality(ips) |-> Take(intAr1.a[i], ims)]],
       seqNames |-> Take(seqNames, ips),
       molNames |-> Take(molNames, ims)]

filterScores(intAr, seqNames, molNames, scThres) ==
  LET ips == { ip \in 1..Len(seqNames) :
                 \E j \in 1..intAr.shape[2] : intAr.a[ip][j] > scThres }
      ims == { im \in 1..Len(molNames) :
                 \E i \in 1..intAr.shape[1] : intAr.a[i][im] > scThres }
      rowsCut == Len(seqNames) # Cardinality(ips)
      seqNames1 == IF rowsCut THEN Take(seqNames, ips) ELSE seqNames
      intAr1 == IF rowsCut
                THEN [shape |-> <<Cardinality(ips), intAr.shape[2]>>, a |-> Take(intAr.a, ips)]
                ELSE intAr
      colsCut == Len(molNames) # Cardinality(ims)
      molNames1 == IF colsCut THEN Take(molNames, ims) ELSE molNames
      intAr2 == IF colsCut
                THEN [shape |-> <<intAr1.shape[1], Cardinality(ims)>>,
                      a |-> [i \in 1..intAr1.shape[1] |-> Take(intAr1.a[i], ims)]]
                ELSE intAr1
  IN  [intAr |-> intAr2, seqNames |-> seqNames1, molNames |-> molNames1]

\* the call of formatInteractionsArray made by getFilteredOutput: its
\* arguments and its result
FormatCall(outSeqs, chooseSeqText, chooseMolText) ==
  LET intDic == getInteractScoresDic(outSeqs)
      ids == filterIds(getSequenceNames(outSeqs), getInteractMolNames(outSeqs),
                       chooseSeqText, chooseMolText)
  IN  [intDic |-> intDic, seqNames |-> ids.seqNames, molNames |-> ids.molNames,
       intAr |-> formatInteractionsArray(intDic, ids.seqNames, ids.molNames)]

getFilteredOutput(outSeqs, chooseSeqText, chooseMolText, scThres) ==
  LET f == FormatCall(outSeqs, chooseSeqText, chooseMolText)
  IN  filterScores(f.intAr, f.seqNames, f.molNames, scThres)

----------------------------------------------------------------------------
(* ConPLexViewer: the actions *)

\* above this many cells the heatmap action asks before drawing
HeatMapAskLimit == 1000

\* what askokcancel may do: return True, return False, or raise
DialogAnswers == {"ok", "cancel", "error"}

\* the answer if a dialog that cannot be shown counted as a refusal
ConfirmedOnlyByOk(answer) == answer = "ok"

Confirmed(answer) == answer # "cancel"

ChosenSeqText == getEnumTextChoose(parsed.seqNames, chooseSeq)
ChosenMolText == getEnumTextChoose(parsed.molNames, chooseMol)

_viewHeatMap(outSeqs, csText, cmText, scThres, dialog) ==
  LET cells == Len(getSequenceNames(outSeqs)) * Len(getInteractMolNames(outSeqs))
      answer == IF cells > HeatMapAskLimit THEN Confirmed(dialog) ELSE TRUE
  IN  [action |-> "displayHeatMap",
       dialog |-> IF cells > HeatMapAskLimit THEN dialog ELSE "notasked",
       answer |-> answer,
       jobs |-> << >>,
       format |-> FormatCall(outSeqs, csText, cmText),
       drawn |-> IF answer THEN <<getFilteredOutput(outSeqs, csText, cmText, scThres)>>
                 ELSE << >>]

\* the string ids of the output sequences whose name is in seqNames
RECURSIVE ObjIdsOf(_, _)
ObjIdsOf(seqs, seqNames) ==
  IF seqs = << >> THEN << >>
  ELSE (IF \E i \in DOMAIN seqNames : seqNames[i] = Head(seqs).name
        THEN << StrOf(Head(seqs).objId) >> ELSE << >>)
       \o ObjIdsOf(Tail(seqs), seqNames)

_generateProts(outSeqs, csText, cmText, scThres, dialog) ==
  LET seqNames == getFilteredOutput(outSeqs, csText, cmText, scThres).seqNames
      objIds == ObjIdsOf(outSeqs.seqs, seqNames)
  IN  [action |-> "genProts",
       dialog |-> dialog,
       answer |-> Confirmed(dialog),
       jobs |-> IF Confirmed(dialog)
                THEN << [protocol |-> "ProtSubSet",
                         params |-> [selectIds |-> TRUE, range |-> Join(objIds, ",")],
                         label |-> "Filtered sequences",
                         input |-> <<"prot", "outputSequences">>,
                         launched |-> TRUE] >>
                ELSE << >>,
       format |-> FormatCall(outSeqs, csText, cmText),
       drawn |-> << >>]

_generateMols(outSeqs, csText, cmText, scThres, dialog) ==
  [action |-> "genMols",
   dialog |-> dialog,
   answer |-> Confirmed(dialog),
   jobs |-> IF Confirmed(dialog)
            THEN << [protocol |-> "ProtExtractInteractingMols",
                     params |-> [chooseSeq |-> csText, chooseMol |-> cmText,
                                 scThres |-> scThres],
                     label |-> "",
                     input |-> <<"prot", "outputSequences">>,
                     launched |-> TRUE] >>
            ELSE << >>,
   format |-> FormatCall(outSeqs, csText, cmText),
   drawn |-> << >>]

\* the runs the viewer is opened on: the models directory holds both models,
\* and a sequence name stands for one chain of residues (the output set holds
\* one score dict per name whatever the residues were)
ViewedSeqChoices == { c \in SeqChoices : (c.name = s1) = (c.seq = <<"M", "K">>) }
ViewedModelsDirs == { d \in ModelsDirChoices : Cardinality(d) = 2 }

\* the viewer opened on a finished run: every outcome of a run whose three
\* steps succeeded, with the form set to any of its choices
ViewerInit ==
  \E seqs \in { WithObjIds(l) : l \in ListsUpTo(ViewedSeqChoices, MaxSeqs) },
     mols \in ListsUpTo(MolChoices, MaxMols),
     models \in ViewedModelsDirs :
    \E index \in 0..(Len(getLocalModels(models)) - 1) :
      LET c == convertStep(InputDisk, {}, mols, 0)
      IN  /\ c.status = "ok"
          /\ \E listing \in Listings(FilesIn(c.fs, getInputSMIDir)) :
               LET p == predictStep(c.fs, c.dirs, seqs, listing, models, index)
                   j == ConplexPredict(p.fs, models, p.invocation, "ok")
                   o == createOutputStep(seqs, mols, j.fs, EmptyDict)
               IN  /\ p.status = "ok"
                   /\ j.exit = 0
                   /\ o.status = "ok"
                   /\ inputSequences = seqs
                   /\ inputSmallMols = mols
                   /\ modelsDir = models
                   /\ modelName = index
                   /\ stepStatus = [i \in DOMAIN _insertAllSteps |-> "finished"]
                   /\ executions = [i \in DOMAIN _insertAllSteps |-> 1]
                   /\ fs = j.fs
                   /\ dirs = c.dirs
                   /\ invocations = << p.invocation >>
                   /\ pickles = o.pickles
                   /\ outputSequences = o.output
                   /\ parsed = o.parsed
                   /\ chooseSeq \in 0..Len(o.parsed.seqNames)
                   /\ chooseMol \in 0..Len(o.parsed.molNames)
                   /\ scoreThres \in ThresChoices
                   /\ viewed = NoView

ViewHeatMap ==
  /\ \E dialog \in DialogAnswers :
       viewed' = _viewHeatMap(outputSequences, ChosenSeqText, ChosenMolText, scoreThres, dialog)
  /\ UNCHANGED <<protVars, chooseSeq, chooseMol, scoreThres>>

GenerateProts ==
  /\ \E dialog \in DialogAnswers :
       viewed' = _generateProts(outputSequences, ChosenSeqText, ChosenMolText, scoreThres, dialog)
  /\ UNCHANGED <<protVars, chooseSeq, chooseMol, scoreThres>>

GenerateMols ==
  /\ \E dialog \in DialogAnswers :
       viewed' = _generateMols(outputSequences, ChosenSeqText, ChosenMolText, scoreThres, dialog)
  /\ UNCHANGED <<protVars, chooseSeq, chooseMol, scoreThres>>

ViewerNext == ViewHeatMap \/ GenerateProts \/ GenerateMols

ViewerSpec == ViewerInit /\ [][ViewerNext]_vars

----------------------------------------------------------------------------
(* The vocabulary of the claims: the tab-separated fields of a line, found  *)
(* from the positions of its tabs                                          *)

Chomp(line) ==
  IF line # << >> /\ line[Len(line)] = NL THEN SubSeq(line, 1, Len(line) - 1) ELSE line

TabPositions(s) == { i \in 1..Len(s) : s[i] = TAB }

FieldCount(s) == Cardinality(TabPositions(s)) + 1

NthTab(s, k) ==
  CHOOSE q \in TabPositions(s) : Cardinality({ r \in TabPositions(s) : r < q }) = k - 1

Field(s, k) ==
  SubSeq(s, IF k = 1 THEN 1 ELSE NthTab(s, k - 1) + 1,
            IF k = FieldCount(s) THEN Len(s) ELSE NthTab(s, k) - 1)

Convert == StepIndex("convertStep")
Predict == StepIndex("predictStep")
Create == StepIndex("createOutputStep")

DataFile == Read(fs, DataFilePath)
ResultsFile == Read(fs, abspath(workingDir \o <<"results.tsv">>))

SeqNamesIn == { inputSequences[i].name : i \in DOMAIN inputSequences }
MolNamesIn == { inputSmallMols[i].molName : i \in DOMAIN inputSmallMols }

----------------------------------------------------------------------------
(* Claims about a run of the protocol *)

\* C1: the steps run in the order convertStep, predictStep, createOutputStep:
\* predictStep has not started unless convertStep has finished,
\* createOutputStep has not started unless predictStep has finished, and at
\* most one step is executing at any time.
C1_StepsInOrder ==
  /\ stepStatus[Predict] # "new" => stepStatus[Convert] = "finished"
  /\ stepStatus[Create] # "new" => stepStatus[Predict] = "finished"
  /\ Cardinality({ i \in DOMAIN stepStatus : Executing(i) }) <= 1

C1_Witness == \A i \in DOMAIN stepStatus : stepStatus[i] = "finished"

\* the predictor answered every row of the data file it was given, in order,
\* with a (molecule, sequence, score) row
PredictorAnsweredAll ==
  /\ DataFile.exists /\ ResultsFile.exists
  /\ Len(ResultsFile.lines) = Len(DataFile.lines)
  /\ \A k \in DOMAIN DataFile.lines :
       LET d == Chomp(DataFile.lines[k])
           r == Chomp(ResultsFile.lines[k])
       IN  /\ FieldCount(r) = 3
           /\ Field(r, 1) = Field(d, 2)
           /\ Field(r, 2) = Field(d, 1)
           /\ Field(r, 3) # << >>

\* C2: with a non-empty set of sequences and a non-empty set of molecules, a
\* conversion that succeeded and a predictor that succeeded and answered every
\* row it was given, the run does not fail: createOutputStep does not raise,
\* and once it has run 'outputSequences' is defined.
C2_RunDefinesOutput ==
  ( /\ inputSequences # << >> /\ inputSmallMols # << >>
    /\ stepStatus[Convert] = "finished"
    /\ stepStatus[Predict] = "finished"
    /\ PredictorAnsweredAll )
  => /\ stepStatus[Create] # "failed"
     /\ stepStatus[Create] = "finished" => outputSequences.defined

\* C4: once a step has failed, no later step has been or is started, no step
\* has been started more than once, and 'outputSequences' is not defined.
C4_FailureEndsRun ==
  /\ \A i \in DOMAIN stepStatus : executions[i] <= 1
  /\ \A i \in DOMAIN stepStatus :
       stepStatus[i] = "failed" =>
         /\ \A j \in DOMAIN stepStatus : j > i => stepStatus[j] = "new" /\ executions[j] = 0
         /\ ~outputSequences.defined
         /\ Len(invocations) <= 1

\* createOutputStep failed on a results file that is there: a malformed line
\* or a missing pair
C4_Witness ==
  /\ stepStatus[Create] = "failed"
  /\ ResultsFile.exists
  /\ parsed = Raised

ChosenModel ==
  IF modelsDir = {} THEN NoneFound
  ELSE CHOOSE f \in modelsDir : Cardinality({ g \in modelsDir : StrLess(g, f) }) = modelName

\* C6: the predictor is invoked at most once, and exactly once by the time
\* predictStep waits for it or has finished; when it is invoked the data file
\* is written, closed and holds a row for every (sequence name, SMILES) pair;
\* --data-file names that file, --model-path the selected model inside the
\* models directory, --outfile results.tsv in the run's directory; and the
\* file createOutputStep parses is the file this invocation writes.
C6_OneInvocation ==
  /\ Len(invocations) <= 1
  /\ stepStatus[Predict] \in {"waiting", "finished"} => Len(invocations) = 1
  /\ stepStatus[Create] # "new" /\ parsed.status = "ok" => Len(invocations) = 1
  /\ \A k \in DOMAIN invocations :
       LET inv == invocations[k]
       IN  /\ inv.dataFile = DataFilePath
           /\ DataFile.exists /\ ~DataFile.open
           /\ Len(DataFile.lines) =
                Cardinality(SeqNamesIn) *
                Cardinality({ inputSmallMols[j].smi : j \in DOMAIN inputSmallMols })
           /\ inv.modelPath = [dir |-> <<"/", "software", "conplex", "ConPLex", "models">>,
                               name |-> ChosenModel]
           /\ inv.outfile = <<"results.tsv">>
           /\ inv.cwd = workingDir
           /\ abspath(getInteractionsFile) = abspath(inv.cwd \o inv.outfile)

C6_Witness ==
  /\ Len(invocations) = 1
  /\ stepStatus[Create] = "finished"
  /\ Len(DataFile.lines) >= 2

\* the score of the last results row for molecule m and sequence s
LastScore(m, s) ==
  LET rows == { k \in DOMAIN ResultsFile.lines :
                  /\ Field(Chomp(ResultsFile.lines[k]), 1) = m
                  /\ Field(Chomp(ResultsFile.lines[k]), 2) = s }
      last == CHOOSE k \in rows : \A j \in rows : j <= k
  IN  Field(Chomp(ResultsFile.lines[last]), 3)

HasRow(m, s) ==
  \E k \in DOMAIN ResultsFile.lines :
    /\ Field(Chomp(ResultsFile.lines[k]), 1) = m
    /\ Field(Chomp(ResultsFile.lines[k]), 2) = s

\* C10: when createOutputStep has finished, the output holds one sequence per
\* input sequence, in input order, each a copy of its input sequence with a
\* score for exactly the input molecule names, the score of the results row
\* of that molecule and sequence; and when the results lack a row for some
\* (input sequence, input molecule) pair the step has failed and no output is
\* defined.
C10_OutputPerInputSequence ==
  /\ stepStatus[Create] = "finished" =>
       /\ outputSequences.defined
       /\ Len(outputSequences.seqs) = Len(inputSequences)
       /\ \A k \in DOMAIN inputSequences :
            LET o == outputSequences.seqs[k]
            IN  /\ o.objId = inputSequences[k].objId
                /\ o.name = inputSequences[k].name
                /\ o.seq = inputSequences[k].seq
                /\ DOMAIN o.scores = MolNamesIn
                /\ \A m \in MolNamesIn : o.scores[m] = LastScore(m, o.name)
  /\ ( /\ stepStatus[Create] \in {"finished", "failed"}
       /\ \E s \in SeqNamesIn, m \in MolNamesIn : ~HasRow(m, s) )
     => stepStatus[Create] = "failed" /\ ~outputSequences.defined

C10_Witness ==
  /\ stepStatus[Create] = "finished"
  /\ Len(inputSequences) = 2 /\ Len(inputSmallMols) = 2
  /\ inputSequences[1].name # inputSequences[2].name

----------------------------------------------------------------------------
(* Claims about parseInteractionsFile *)

\* a line without its leading and trailing whitespace, found from the
\* positions of its first and last non-whitespace characters
Trimmed(line) ==
  LET solid == { i \in 1..Len(line) : line[i] \notin Whitespace }
  IN  IF solid = {} THEN << >>
      ELSE SubSeq(line, CHOOSE i \in solid : \A j \in solid : i <= j,
                        CHOOSE i \in solid : \A j \in solid : j <= i)

IsAscending(l) == \A i, j \in DOMAIN l : i < j => StrLess(l[i], l[j])

Elements(l) == { l[i] : i \in DOMAIN l }

\* rows: for each line of the file its <<molecule id, sequence id, score>>
ParsedMatches(rows) ==
  LET lastRow(m, s) == CHOOSE k \in DOMAIN rows :
                         /\ rows[k][1] = m /\ rows[k][2] = s
                         /\ \A j \in DOMAIN rows : rows[j][1] = m /\ rows[j][2] = s => j <= k
  IN  /\ parsed.status = "ok"
      /\ DOMAIN parsed.intDic = { rows[k][2] : k \in DOMAIN rows }
      /\ \A s \in DOMAIN parsed.intDic :
           /\ DOMAIN parsed.intDic[s] = { rows[k][1] : k \in { j \in DOMAIN rows : rows[j][2] = s } }
           /\ \A m \in DOMAIN parsed.intDic[s] : parsed.intDic[s][m] = rows[lastRow(m, s)][3]
      /\ IsAscending(parsed.seqNames)
      /\ Elements(parsed.seqNames) = DOMAIN parsed.intDic
      /\ IsAscending(parsed.molNames)
      /\ Elements(parsed.molNames) = { rows[k][1] : k \in DOMAIN rows }

\* C3 as stated: for a file whose every line has exactly three tab-separated
\* fields, the result maps each sequence id to each of its molecule ids to
\* the score field of the last such line, with both name lists ascending and
\* free of duplicates.
C3_ParseOfThreeFieldLines ==
  ( /\ parsed # NotRun
    /\ ResultsFile.exists
    /\ \A k \in DOMAIN ResultsFile.lines : FieldCount(Chomp(ResultsFile.lines[k])) = 3 )
  => ParsedMatches([k \in DOMAIN ResultsFile.lines |->
                      LET l == Chomp(ResultsFile.lines[k])
                      IN  <<Field(l, 1), Field(l, 2), Field(l, 3)>>])

\* C3 amended: for a file whose every line has exactly three tab-separated
\* fields once its leading and trailing whitespace is removed, the result
\* maps each sequence id to each of its molecule ids to the score of the last
\* such line, ids and scores being the fields of the stripped line, with both
\* name lists ascending and free of duplicates.
C3_ParseOfStrippedLines ==
  ( /\ parsed # NotRun
    /\ ResultsFile.exists
    /\ \A k \in DOMAIN ResultsFile.lines : FieldCount(Trimmed(ResultsFile.lines[k])) = 3 )
  => ParsedMatches([k \in DOMAIN ResultsFile.lines |->
                      LET l == Trimmed(ResultsFile.lines[k])
                      IN  <<Field(l, 1), Field(l, 2), Field(l, 3)>>])

\* a parsed file that gives one (molecule, sequence) pair two different scores
C3_Witness ==
  /\ parsed.status = "ok"
  /\ \E j, k \in DOMAIN ResultsFile.lines :
       /\ j < k
       /\ Field(Trimmed(ResultsFile.lines[j]), 1) = Field(Trimmed(ResultsFile.lines[k]), 1)
       /\ Field(Trimmed(ResultsFile.lines[j]), 2) = Field(Trimmed(ResultsFile.lines[k]), 2)
       /\ Field(Trimmed(ResultsFile.lines[j]), 3) # Field(Trimmed(ResultsFile.lines[k]), 3)

----------------------------------------------------------------------------
(* Claims about the viewer *)

\* the number a score string stands for, in tenths
NumericValue(s) ==
  CASE s = lo -> 2
    [] s = mid -> 5
    [] s = hi -> 8

\* the scores the output set holds for a sequence name: those of the last
\* output sequence of that name
ScoresOfName(n) ==
  LET named == { i \in DOMAIN outputSequences.seqs : outputSequences.seqs[i].name = n }
  IN  outputSequences.seqs[CHOOSE i \in named : \A j \in named : j <= i].scores

\* the sequence and molecule names the form's two choices leave, in set order
ChosenSeqNames ==
  SelectSeq([i \in DOMAIN inputSequences |-> inputSequences[i].name],
            LAMBDA n : ChosenSeqText = All \/ n = ChosenSeqText)

ChosenMolNames ==
  SelectSeq([i \in DOMAIN inputSmallMols |-> inputSmallMols[i].molName],
            LAMBDA n : ChosenMolText = All \/ n = ChosenMolText)

\* the chosen sequence names with a score over the threshold for a chosen molecule
PassingSeqNames ==
  { n \in Elements(ChosenSeqNames) :
      \E m \in Elements(ChosenMolNames) : NumericValue(ScoresOfName(n)[m]) > scoreThres }

\* the ids a comma-separated range names
IdsOfRange(range) ==
  IF range = << >> THEN {}
  ELSE { Decimal(Field([i \in DOMAIN range |-> IF range[i] = "," THEN TAB ELSE range[i]], k), 0) :
           k \in 1..(Cardinality({ i \in DOMAIN range : range[i] = "," }) + 1) }

\* C7: an invocation of genProts or genMols creates and launches exactly one
\* job, reading the protocol's outputSequences, when the dialog is confirmed
\* or cannot be shown, and none when it is cancelled; the job of genProts is
\* given exactly the ids of the output sequences whose name passed the
\* filters, the job of genMols the chosen sequence, molecule and threshold.
C7_OneJobPerConfirmedInvocation ==
  viewed.action \in {"genProts", "genMols"} =>
    /\ viewed.dialog = "cancel" => viewed.jobs = << >>
    /\ viewed.dialog \in {"ok", "error"} =>
         /\ Len(viewed.jobs) = 1
         /\ viewed.jobs[1].launched
         /\ viewed.jobs[1].input = <<"prot", "outputSequences">>
         /\ viewed.action = "genProts" =>
              /\ viewed.jobs[1].protocol = "ProtSubSet"
              /\ viewed.jobs[1].params.selectIds
              /\ IdsOfRange(viewed.jobs[1].params.range) =
                   { outputSequences.seqs[i].objId :
                       i \in { j \in DOMAIN outputSequences.seqs :
                                 outputSequences.seqs[j].name \in PassingSeqNames } }
         /\ viewed.action = "genMols" =>
              /\ viewed.jobs[1].protocol = "ProtExtractInteractingMols"
              /\ viewed.jobs[1].params =
                   [chooseSeq |-> ChosenSeqText, chooseMol |-> ChosenMolText,
                    scThres |-> scoreThres]

\* genProts whose dialog could not be shown, with some but not all sequences
\* passing the threshold
C7_Witness ==
  /\ viewed.action = "genProts"
  /\ viewed.dialog = "error"
  /\ PassingSeqNames # {}
  /\ PassingSeqNames # Elements(ChosenSeqNames)

\* C8: every score of the array the heatmap action draws is strictly greater
\* than the score threshold.
C8_DrawnScoresOverThreshold ==
  viewed.action = "displayHeatMap" =>
    \A d \in DOMAIN viewed.drawn :
      \A i \in 1..viewed.drawn[d].intAr.shape[1], j \in 1..viewed.drawn[d].intAr.shape[2] :
        viewed.drawn[d].intAr.a[i][j] > scoreThres

IsSorted(l) == \A i, j \in DOMAIN l : i < j => ~StrLess(l[j], l[i])

\* the array built has one row per sequence name and one column per molecule
\* name it was called with, each entry the number its score string stands for
ArrayHoldsScores(f) ==
  /\ f.intAr.shape = <<Len(f.seqNames), Len(f.molNames)>>
  /\ Len(f.intAr.a) = Len(f.seqNames)
  /\ \A i \in DOMAIN f.seqNames :
       /\ Len(f.intAr.a[i]) = Len(f.molNames)
       /\ \A j \in DOMAIN f.molNames :
            f.intAr.a[i][j] = NumericValue(f.intDic[f.seqNames[i]][f.molNames[j]])

----------------------------------------------------------------------------
(* Claims about the data file *)

\* the data file has a row of these four fields
HasDataRow(seq, mol) ==
  \E k \in DOMAIN DataFile.lines :
    LET d == Chomp(DataFile.lines[k])
    IN  /\ FieldCount(d) = 4
        /\ Field(d, 1) = seq.name
        /\ Field(d, 2) = mol.molName
        /\ Field(d, 3) = seq.seq
        /\ Field(d, 4) = mol.smi

\* C11: the data file predictStep has written holds one row for every (input
\* sequence, input molecule) pair and no other: it has as many rows as there
\* are pairs, and every pair has a row with the sequence's name and residues
\* and the molecule's name and SMILES, also when two molecules have the same
\* SMILES or two sequences the same name.
C11_RowPerInputPair ==
  DataFile.exists =>
    /\ Len(DataFile.lines) = Len(inputSequences) * Len(inputSmallMols)
    /\ \A i \in DOMAIN inputSequences, j \in DOMAIN inputSmallMols :
         HasDataRow(inputSequences[i], inputSmallMols[j])

----------------------------------------------------------------------------
(* Claims about the filtered output *)

\* the chosen molecule names with a score over the threshold for a chosen sequence
PassingMolNames ==
  { m \in Elements(ChosenMolNames) :
      \E n \in Elements(ChosenSeqNames) : NumericValue(ScoresOfName(n)[m]) > scoreThres }

\* C12: getFilteredOutput returns the chosen sequence names, in their order in
\* the output set, that have a score strictly over scoreThres with some chosen
\* molecule, the chosen molecule names, in their order, that have a score
\* strictly over scoreThres with some chosen sequence, and the array of the
\* scores of these sequences (rows) and molecules (columns).
C12_FilteredOutput ==
  viewed.action = "displayHeatMap" =>
    /\ Len(viewed.drawn) = 1
    /\ LET r == viewed.drawn[1]
       IN  /\ r.seqNames = SelectSeq(ChosenSeqNames, LAMBDA n : n \in PassingSeqNames)
           /\ r.molNames = SelectSeq(ChosenMolNames, LAMBDA m : m \in PassingMolNames)
           /\ r.intAr.shape = <<Len(r.seqNames), Len(r.molNames)>>
           /\ Len(r.intAr.a) = Len(r.seqNames)
           /\ \A i \in DOMAIN r.seqNames :
                /\ Len(r.intAr.a[i]) = Len(r.molNames)
                /\ \A j \in DOMAIN r.molNames :
                     r.intAr.a[i][j] = NumericValue(ScoresOfName(r.seqNames[i])[r.molNames[j]])

\* of two sequences and two molecules, the second sequence and one molecule
\* are returned
C12_Witness ==
  /\ viewed.action = "displayHeatMap"
  /\ Len(viewed.format.seqNames) = 2
  /\ Len(viewed.format.molNames) = 2
  /\ viewed.drawn[1].seqNames = << viewed.format.seqNames[2] >>
  /\ Len(viewed.drawn[1].molNames) = 1

\* C13: in the result of filterScores every row and every column of the array
\* has an entry strictly over scoreThres, and filterScores applied to its own
\* result with the same threshold returns that result.
C13_FilterScoresIdempotent ==
  viewed.action = "displayHeatMap" =>
    \A d \in DOMAIN viewed.drawn :
      LET r == viewed.drawn[d]
      IN  /\ \A i \in 1..r.intAr.shape[1] :
               \E j \in 1..r.intAr.shape[2] : r.intAr.a[i][j] > scoreThres
          /\ \A j \in 1..r.intAr.shape[2] :
               \E i \in 1..r.intAr.shape[1] : r.intAr.a[i][j] > scoreThres
          /\ filterScores(r.intAr, r.seqNames, r.molNames, scoreThres) = r

\* a result that lost a row and a column, and still holds a score that is
\* not over the threshold
C13_Witness ==
  /\ viewed.action = "displayHeatMap"
  /\ Len(viewed.format.seqNames) = 2
  /\ Len(viewed.format.molNames) = 2
  /\ viewed.drawn[1].intAr.shape \in {<<1, 2>>, <<2, 1>>, <<1, 1>>}

----------------------------------------------------------------------------
(* convertStep executed again by the runner on the directories it left *)

\* convertStep killed before it returned: after the SMI directory was made
\* (point 0), after the molecules directory and the first point - 1 links
\* were made, or after the conversion script ended (the last point)
convertStepInterrupted(fsys, ds, mols, point) ==
  LET smiDir == getInputSMIDir
  IN  IF point = 0 THEN [status |-> "ok", fs |-> fsys, dirs |-> ds \cup {smiDir}]
      ELSE IF point <= Len(mols) + 1
      THEN LET cp == copyInputMolsInDir(fsys, ds \cup {smiDir}, SubSeq(mols, 1, point - 1))
           IN  [status |-> cp.status, fs |-> cp.fs, dirs |-> cp.dirs]
      ELSE convertStep(fsys, ds, mols, 0)

RerunInit ==
  /\ inputSequences = << >>
  /\ inputSmallMols \in ListsUpTo(MolChoices, MaxMols)
  /\ modelsDir = {}
  /\ modelName = 0
  /\ stepStatus = [i \in DOMAIN _insertAllSteps |-> "new"]
  /\ executions = [i \in DOMAIN _insertAllSteps |-> 0]
  /\ fs = InputDisk
  /\ dirs = {}
  /\ invocations = << >>
  /\ pickles = EmptyDict
  /\ outputSequences = NoOutput
  /\ parsed = NotRun
  /\ chooseSeq = 0
  /\ chooseMol = 0
  /\ scoreThres = 0
  /\ viewed = NoView

\* the first execution runs to its end
RunConvert ==
  /\ executions[StepIndex("convertStep")] = 0
  /\ \E exit \in {0, 1} :
       LET r == convertStep(fs, dirs, inputSmallMols, exit)
       IN  /\ fs' = r.fs
           /\ dirs' = r.dirs
           /\ Finish("convertStep", r.status = "ok")
  /\ executions' = [executions EXCEPT ![StepIndex("convertStep")] = 1]
  /\ UNCHANGED <<viewerVars, formVars, invocations, pickles, outputSequences, parsed>>

\* the first execution is killed on the way
InterruptConvert ==
  /\ executions[StepIndex("convertStep")] = 0
  /\ \E point \in 0..(Len(inputSmallMols) + 2) :
       LET r == convertStepInterrupted(fs, dirs, inputSmallMols, point)
       IN  /\ r.status = "ok"
           /\ fs' = r.fs
           /\ dirs' = r.dirs
  /\ stepStatus' = [stepStatus EXCEPT ![StepIndex("convertStep")] = "aborted"]
  /\ executions' = [executions EXCEPT ![StepIndex("convertStep")] = 1]
  /\ UNCHANGED <<viewerVars, formVars, invocations, pickles, outputSequences, parsed>>

\* the runner executes the step again, the directories as they were left
RerunConvert ==
  /\ executions[StepIndex("convertStep")] \in 1..MaxReruns
  /\ \E exit \in {0, 1} :
       LET r == convertStep(fs, dirs, inputSmallMols, exit)
       IN  /\ fs' = r.fs
           /\ dirs' = r.dirs
           /\ Finish("convertStep", r.status = "ok")
  /\ executions' = [executions EXCEPT ![StepIndex("convertStep")] = @ + 1]
  /\ UNCHANGED <<viewerVars, formVars, invocations, pickles, outputSequences, parsed>>

RerunNext == RunConvert \/ InterruptConvert \/ RerunConvert

RerunSpec == RerunInit /\ [][RerunNext]_vars

\* what one execution of convertStep on the directories of a new run leaves
SingleExecution == convertStep(InputDisk, {}, inputSmallMols, 0)

\* C14: when a single execution of convertStep succeeds, an execution of
\* convertStep that follows a complete or an interrupted one succeeds if its
\* conversion script exits with zero, and when it finishes it leaves the files
\* and directories a single execution leaves.
C14_ConvertStepRerun ==
  [][ ( /\ executions[Convert] >= 1
        /\ executions'[Convert] = executions[Convert] + 1
        /\ SingleExecution.status = "ok" )
      => /\ convertStep(fs, dirs, inputSmallMols, 0).status = "ok"
         /\ stepStatus'[Convert] = "finished" =>
              /\ fs' = SingleExecution.fs
              /\ dirs' = SingleExecution.dirs ]_vars

=============================================================================
